---- MODULE Spec2Model ----
(***************************************************************************)
(* The in-memory clinic store of services/api.ts: the doctor roster, the   *)
(* patient and visit collections, the assignment engine (findBestDoctor)   *)
(* and the exported asynchronous operations, together with the doctor      *)
(* dashboard handlers that drive updateVisitStatus and submitDiagnosis.    *)
(*                                                                         *)
(* JavaScript runs every piece of code between two awaits to completion,   *)
(* so each action below is one such piece.  An operation whose first       *)
(* statement is `await delay(ms)` reads nothing before the delay: it is    *)
(* modelled by the piece that runs when the timer fires.  finalizeTriage   *)
(* looks the visit up before it awaits the specialty lookup and is         *)
(* modelled by two actions with the suspended call kept in `inflight`.     *)
(***************************************************************************)
EXTENDS Integers, Sequences, FiniteSets, Bags, TLC

VARIABLES doctors, patients, visits, nextPatientId, nextVisitId, inflight,
          currentUser, allMyVisits, selectedSession, isSaving, calls,
          simulation

vars == <<doctors, patients, visits, nextPatientId, nextVisitId, inflight,
          currentUser, allMyVisits, selectedSession, isSaving, calls,
          simulation>>

store == <<doctors, patients, visits, nextPatientId, nextVisitId, inflight>>

dashboard == <<currentUser, allMyVisits, selectedSession, isSaving, calls>>

(* The simulation of part_001 before startPatientSimulation is called: no  *)
(* scenario taken, no loop iteration run, no journey begun.                *)
NotStarted == [patientIndex |-> 0, i |-> 0, pc |-> "idle", journeys |-> << >>]

(***************************************************************************)
(* Program constants.                                                      *)
(***************************************************************************)
MISMATCH_PENALTY == 10000

LOAD_PENALTY_WEIGHT == 300

AVG_SERVICE_TIME == 900

FirstPatientId == 101

FirstVisitId == 1

(***************************************************************************)
(* Bounds of the model.                                                    *)
(***************************************************************************)
MaxPatients == 1

MaxVisits == 2

(* Suspended finalizeTriage calls in the lifecycle specification.          *)
MaxInFlight == 1

(* finalizeTriage is not called once the loads sum to MaxTotalLoad.        *)
MaxTotalLoad == 2

(* Math.random() is drawn from IdScale equally spaced fractions k/IdScale. *)
IdScale == 2

(***************************************************************************)
(* Values.  A doctor id `d_<x>` is kept as the integer x * IdScale, so     *)
(* d_1 .. d_6 are IdScale .. 6 * IdScale and an id made by addDoctor is    *)
(* (length + 1) * IdScale + k.  NoDoctor stands for an undefined           *)
(* assigned_doctor_id and for findBestDoctor's null.                       *)
(***************************************************************************)
NoDoctor == 0

(* The fields of a dashboard Session that the handlers read; NoSession is  *)
(* a null selectedSession or patientInCabin.                               *)
Session(visit) == [id |-> visit.id, status |-> visit.status]

NoSession == [id |-> 0, status |-> "none"]

DoctorStatuses == {"active", "break", "offline"}

Priorities == {"Normal", "Priority", "Emergency"}

VisitStatuses == {"triage", "waiting", "in_cabin", "seen"}

(* String.prototype.toLowerCase on the specialty strings of the model.     *)
ToLowerCase(s) ==
    CASE s = "Internal Medicine" -> "internal medicine"
      [] s = "General Surgery" -> "general surgery"
      [] s = "Neurology" -> "neurology"
      [] s = "Neurosurgery" -> "neurosurgery"
      [] s = "Endocrinology" -> "endocrinology"
      [] s = "Cardiology" -> "cardiology"
      [] OTHER -> s

Doctor(id, specialty, status) ==
    [id |-> id, specialty |-> specialty, status |-> status, currentLoad |-> 0]

(* The decimal digits of n as UTF-16 code units, as in String(n).          *)
RECURSIVE Digits(_)

Digits(n) == IF n < 10 THEN <<48 + n>> ELSE Digits(n \div 10) \o <<48 + (n % 10)>>

(* The digits after the point of rem / IdScale, at most `left` of them.    *)
RECURSIVE FractionDigits(_, _)

FractionDigits(rem, left) ==
    IF rem = 0 \/ left = 0 THEN << >>
    ELSE <<48 + ((10 * rem) \div IdScale)>> \o FractionDigits((10 * rem) % IdScale, left - 1)

(* The id string `d_${x}` of the doctor whose id is kept as x * IdScale,   *)
(* as code units: "d_7" for 7 and "d_7.5" for 7.5.                         *)
IdString(id) ==
    <<100, 95>> \o Digits(id \div IdScale) \o
        (IF id % IdScale = 0 THEN << >> ELSE <<46>> \o FractionDigits(id % IdScale, 16))

InitialDoctors ==
    << Doctor(1 * IdScale, "Internal Medicine", "active"),
       Doctor(2 * IdScale, "General Surgery", "active"),
       Doctor(3 * IdScale, "Neurology", "active"),
       Doctor(4 * IdScale, "Internal Medicine", "active"),
       Doctor(5 * IdScale, "Neurosurgery", "break"),
       Doctor(6 * IdScale, "Endocrinology", "active") >>

(***************************************************************************)
(* Array helpers.                                                          *)
(***************************************************************************)
(* The indices 1 .. Len(s) in ascending order.                             *)
Indices(s) == [i \in 1 .. Len(s) |-> i]

RECURSIVE SumLoads(_, _)
(* reduce((acc, d) => acc + d.currentLoad, 0) over the doctors at the      *)
(* indices idx of ds.                                                      *)
SumLoads(ds, idx) ==
    IF idx = << >> THEN 0
    ELSE ds[Head(idx)].currentLoad + SumLoads(ds, Tail(idx))

(* The sum of the loads of the whole roster.                               *)
TotalLoad(ds) == SumLoads(ds, Indices(ds))

(* doctors.find(d => d.id === doctorId): the first index, 0 if none.       *)
FindDoctor(ds, doctorId) ==
    IF \E i \in DOMAIN ds : ds[i].id = doctorId
    THEN CHOOSE i \in DOMAIN ds :
            /\ ds[i].id = doctorId
            /\ \A j \in DOMAIN ds : ds[j].id = doctorId => i <= j
    ELSE 0

(* A lookup that falls back to the last visit when the id is unknown.      *)
FindVisitOrLast(vs, visitId) ==
    IF \E i \in DOMAIN vs : vs[i].id = visitId
    THEN CHOOSE i \in DOMAIN vs :
            /\ vs[i].id = visitId
            /\ \A j \in DOMAIN vs : vs[j].id = visitId => i <= j
    ELSE Len(vs)

(* visits.find(v => v.id === visitId): the first index, 0 if none.         *)
FindVisit(vs, visitId) ==
    IF \E i \in DOMAIN vs : vs[i].id = visitId
    THEN CHOOSE i \in DOMAIN vs :
            /\ vs[i].id = visitId
            /\ \A j \in DOMAIN vs : vs[j].id = visitId => i <= j
    ELSE 0

(***************************************************************************)
(* findBestDoctor.  The average load sum/n is never formed: every          *)
(* comparison against it and every cost is scaled by n, the number of      *)
(* active doctors, which keeps the arithmetic in the integers and orders   *)
(* the doctors exactly as the quotient does.                               *)
(***************************************************************************)
(* A filter that keeps every doctor whatever the status.                   *)
EveryDoctorFrom(ds, i) == [k \in 1 .. (Len(ds) - i + 1) |-> i + k - 1]

RECURSIVE ActiveFrom(_, _)
(* doctors.filter(d => d.status === 'active'), as the ascending sequence   *)
(* of the indices i..Len(ds) of the active doctors of ds.                  *)
ActiveFrom(ds, i) ==
    IF i > Len(ds) THEN << >>
    ELSE IF ds[i].status = "active" THEN << i >> \o ActiveFrom(ds, i + 1)
    ELSE ActiveFrom(ds, i + 1)

ActiveDoctors(ds) == ActiveFrom(ds, 1)

IsMatch(d, targetSpecialty) ==
    ToLowerCase(d.specialty) = ToLowerCase(targetSpecialty)

Max(a, b) == IF a >= b THEN a ELSE b

(* The terms of the loop with an estimated wait that ignores the load.     *)
CostTermsFlatWait(d, targetSpecialty, sum, n) ==
    [mismatchCost |-> n * (IF IsMatch(d, targetSpecialty) THEN 0 ELSE MISMATCH_PENALTY),
     estimatedWait |-> n * AVG_SERVICE_TIME,
     loadPenalty |-> 0]

(* The terms computed for the doctor d in one pass of the loop of lines     *)
(* 89-106, each multiplied by n, for n active doctors of load sum `sum`    *)
(* (avgLoad = sum / n is never formed, so that all terms stay integers).   *)
CostTerms(d, targetSpecialty, sum, n) ==
    [mismatchCost |-> n * (IF IsMatch(d, targetSpecialty) THEN 0 ELSE MISMATCH_PENALTY),
     estimatedWait |-> n * (d.currentLoad * AVG_SERVICE_TIME),
     loadPenalty |-> Max(0, d.currentLoad * n - sum) * LOAD_PENALTY_WEIGHT]

(* n * totalCost without the mismatch cost of line 92.                     *)
TotalCostOfLoad(d, targetSpecialty, sum, n) ==
    LET terms == CostTerms(d, targetSpecialty, sum, n)
    IN  terms.estimatedWait + terms.loadPenalty

(* n * totalCost with the mismatch cost of line 92 alone.                  *)
TotalCostOfSpecialty(d, targetSpecialty, sum, n) ==
    CostTerms(d, targetSpecialty, sum, n).mismatchCost

(* n * totalCost of the doctor d, for n active doctors of load sum `sum`.  *)
TotalCost(d, targetSpecialty, sum, n) ==
    LET terms == CostTerms(d, targetSpecialty, sum, n)
    IN  terms.mismatchCost + terms.estimatedWait + terms.loadPenalty

(* The loop with `totalCost <= minCost`: the last doctor of least cost.    *)
RECURSIVE CostLoopLast(_, _, _, _, _, _, _)

CostLoopLast(ds, idx, targetSpecialty, sum, n, best, minCost) ==
    IF idx = << >> THEN best
    ELSE LET totalCost == TotalCost(ds[Head(idx)], targetSpecialty, sum, n)
         IN  IF best = 0 \/ totalCost <= minCost
             THEN CostLoopLast(ds, Tail(idx), targetSpecialty, sum, n, Head(idx), totalCost)
             ELSE CostLoopLast(ds, Tail(idx), targetSpecialty, sum, n, best, minCost)

RECURSIVE CostLoop(_, _, _, _, _, _, _)
(* The loop of lines 89-106: best is the index kept in bestDoctor (0 for   *)
(* null) and minCost its cost (meaningful once best # 0; Infinity before). *)
CostLoop(ds, idx, targetSpecialty, sum, n, best, minCost) ==
    IF idx = << >> THEN best
    ELSE LET i == Head(idx)
             totalCost == TotalCost(ds[i], targetSpecialty, sum, n)
         IN  IF best = 0 \/ totalCost < minCost
             THEN CostLoop(ds, Tail(idx), targetSpecialty, sum, n, i, totalCost)
             ELSE CostLoop(ds, Tail(idx), targetSpecialty, sum, n, best, minCost)

RECURSIVE MatchLoopFirst(_, _, _, _)
(* The loop of lines 71-79 without the comparison of loads at line 75: the *)
(* first matching candidate is kept.                                       *)
MatchLoopFirst(ds, idx, targetSpecialty, bestMatch) ==
    IF idx = << >> THEN bestMatch
    ELSE IF IsMatch(ds[Head(idx)], targetSpecialty) /\ bestMatch = 0
         THEN MatchLoopFirst(ds, Tail(idx), targetSpecialty, Head(idx))
         ELSE MatchLoopFirst(ds, Tail(idx), targetSpecialty, bestMatch)

RECURSIVE MatchLoop(_, _, _, _)
(* The loop of lines 71-79 over the candidates.                            *)
MatchLoop(ds, idx, targetSpecialty, bestMatch) ==
    IF idx = << >> THEN bestMatch
    ELSE LET i == Head(idx)
         IN  IF /\ IsMatch(ds[i], targetSpecialty)
                /\ (bestMatch = 0 \/ ds[i].currentLoad < ds[bestMatch].currentLoad)
             THEN MatchLoop(ds, Tail(idx), targetSpecialty, i)
             ELSE MatchLoop(ds, Tail(idx), targetSpecialty, bestMatch)

RECURSIVE SortedFirst(_, _, _)
(* candidates.sort((a, b) => a.currentLoad - b.currentLoad)[0]: the sort   *)
(* is stable, so its first element is the earliest candidate of least load.*)
SortedFirst(ds, idx, first) ==
    IF idx = << >> THEN first
    ELSE LET i == Head(idx)
         IN  IF first = 0 \/ ds[i].currentLoad < ds[first].currentLoad
             THEN SortedFirst(ds, Tail(idx), i)
             ELSE SortedFirst(ds, Tail(idx), first)

(* The choice with an Emergency branch that skips the loop of lines 71-79  *)
(* and takes the least busy candidate whatever its specialty.              *)
SelectLeastBusy(ds, activeDoctors, targetSpecialty, priority) ==
    LET n == Len(activeDoctors)
        sum == SumLoads(ds, activeDoctors)
    IN  IF priority = "Emergency"
        THEN LET AtMostAvg(i) == ds[i].currentLoad * n <= sum
                 lessBusy == SelectSeq(activeDoctors, AtMostAvg)
                 candidates == IF Len(lessBusy) > 0 THEN lessBusy ELSE activeDoctors
             IN  SortedFirst(ds, candidates, 0)
        ELSE LET bestDoctor == CostLoop(ds, activeDoctors, targetSpecialty, sum, n, 0, 0)
             IN  IF bestDoctor # 0 THEN bestDoctor ELSE activeDoctors[1]

(* The choice that is always the absolute fallback of line 107, the first  *)
(* active doctor.                                                          *)
SelectFirstActive(ds, activeDoctors, targetSpecialty, priority) ==
    activeDoctors[1]

(* The choice with an Emergency branch whose candidates are all active     *)
(* doctors, as if the filter of line 68 kept nobody.                       *)
SelectAmongActive(ds, activeDoctors, targetSpecialty, priority) ==
    LET n == Len(activeDoctors)
        sum == SumLoads(ds, activeDoctors)
    IN  IF priority = "Emergency"
        THEN LET bestMatch == MatchLoop(ds, activeDoctors, targetSpecialty, 0)
             IN  IF bestMatch # 0 THEN bestMatch
                 ELSE SortedFirst(ds, activeDoctors, 0)
        ELSE LET bestDoctor == CostLoop(ds, activeDoctors, targetSpecialty, sum, n, 0, 0)
             IN  IF bestDoctor # 0 THEN bestDoctor ELSE activeDoctors[1]

(* Lines 65-107: the choice among a non-empty activeDoctors.               *)
SelectDoctor(ds, activeDoctors, targetSpecialty, priority) ==
    LET n == Len(activeDoctors)
        sum == SumLoads(ds, activeDoctors)
    IN  IF priority = "Emergency"
        THEN LET AtMostAvg(i) == ds[i].currentLoad * n <= sum
                 lessBusy == SelectSeq(activeDoctors, AtMostAvg)
                 candidates == IF Len(lessBusy) > 0 THEN lessBusy ELSE activeDoctors
                 bestMatch == MatchLoop(ds, candidates, targetSpecialty, 0)
             IN  IF bestMatch # 0 THEN bestMatch
                 ELSE SortedFirst(ds, candidates, 0)
        ELSE LET bestDoctor == CostLoop(ds, activeDoctors, targetSpecialty, sum, n, 0, 0)
             IN  IF bestDoctor # 0 THEN bestDoctor ELSE activeDoctors[1]

(* A findBestDoctor that falls back to the head of the whole roster when   *)
(* nobody is active.                                                       *)
findBestDoctorFallback(ds, targetSpecialty, priority) ==
    IF Len(ActiveDoctors(ds)) = 0 THEN 1
    ELSE SelectDoctor(ds, ActiveDoctors(ds), targetSpecialty, priority)

(* The index in ds of the doctor findBestDoctor returns, 0 for null.       *)
findBestDoctor(ds, targetSpecialty, priority) ==
    IF Len(ActiveDoctors(ds)) = 0 THEN 0
    ELSE SelectDoctor(ds, ActiveDoctors(ds), targetSpecialty, priority)

RECURSIVE InsertByLoad(_, _)
(* The doctor d put into the sequence `sorted` before the first doctor of  *)
(* greater load.                                                           *)
InsertByLoad(sorted, d) ==
    IF sorted = << >> THEN << d >>
    ELSE IF d.currentLoad < Head(sorted).currentLoad THEN << d >> \o sorted
    ELSE << Head(sorted) >> \o InsertByLoad(Tail(sorted), d)

RECURSIVE SortByLoad(_)
(* s.sort((a, b) => a.currentLoad - b.currentLoad), a stable sort.         *)
SortByLoad(s) ==
    IF s = << >> THEN << >>
    ELSE InsertByLoad(SortByLoad(SubSeq(s, 1, Len(s) - 1)), s[Len(s)])

(* The roster after a findBestDoctor whose line 81 sorts `doctors` itself. *)
RosterSortedInPlace(ds, targetSpecialty, priority) ==
    IF priority = "Emergency" /\ \A i \in DOMAIN ds : ~IsMatch(ds[i], targetSpecialty)
    THEN SortByLoad(ds)
    ELSE ds

(* The roster after findBestDoctor(targetSpecialty, priority) on the       *)
(* roster ds.  The filters of lines 62 and 68 build new arrays, and the    *)
(* sort of line 81 permutes `candidates`, which is one of those arrays; no *)
(* statement of lines 61-108 assigns to `doctors`, to one of its slots or  *)
(* to a field of a doctor.                                                 *)
RosterAfterSelect(ds, targetSpecialty, priority) == ds

(***************************************************************************)
(* The store after module initialisation, with no dashboard mounted.       *)
(***************************************************************************)
Init ==
    /\ doctors = InitialDoctors
    /\ patients = << >>
    /\ visits = << >>
    /\ nextPatientId = FirstPatientId
    /\ nextVisitId = FirstVisitId
    /\ inflight = EmptyBag
    /\ currentUser = NoDoctor
    /\ allMyVisits = << >>
    /\ selectedSession = NoSession
    /\ isSaving = FALSE
    /\ calls = << >>
    /\ simulation = NotStarted

(***************************************************************************)
(* Roster operations.                                                      *)
(***************************************************************************)
(* The piece of addDoctor after its delay; r is Math.random() * IdScale.   *)
addDoctor(specialty, status, r) ==
    /\ LET newDoctor == Doctor((Len(doctors) + 1) * IdScale + r, specialty, status)
       IN  doctors' = Append(doctors, newDoctor)
    /\ UNCHANGED <<patients, visits, nextPatientId, nextVisitId, inflight>>
    /\ UNCHANGED <<dashboard, simulation>>

(* updateDoctorStatus that also clears the doctor's load, or, with an      *)
(* unknown id, sets the status of the first doctor.                        *)
SetDoctorStatusAndLoad(ds, doctorId, status) ==
    LET doctor == FindDoctor(ds, doctorId)
    IN  IF doctor # 0
        THEN [ds EXCEPT ![doctor].status = status, ![doctor].currentLoad = 0]
        ELSE [ds EXCEPT ![1].status = status]

(* The roster after updateDoctorStatus(doctorId, status).                  *)
SetDoctorStatus(ds, doctorId, status) ==
    LET doctor == FindDoctor(ds, doctorId)
    IN  IF doctor # 0 THEN [ds EXCEPT ![doctor].status = status] ELSE ds

(* The piece of updateDoctorStatus after its delay.                        *)
updateDoctorStatus(doctorId, status) ==
    /\ doctors' = SetDoctorStatus(doctors, doctorId, status)
    /\ UNCHANGED <<patients, visits, nextPatientId, nextVisitId, inflight>>
    /\ UNCHANGED <<dashboard, simulation>>

(***************************************************************************)
(* Patients and visits.                                                    *)
(***************************************************************************)
(* The piece of createPatient after its delay.                             *)
createPatient ==
    /\ Len(patients) < MaxPatients
    /\ patients' = Append(patients, nextPatientId)
    /\ nextPatientId' = nextPatientId + 1
    /\ UNCHANGED <<doctors, visits, nextVisitId, inflight>>
    /\ UNCHANGED <<dashboard, simulation>>

(* The fields of a new visit that the engine reads or writes.              *)
Visit(id) ==
    [id |-> id, status |-> "triage", priority |-> "Normal",
     assigned_doctor_id |-> NoDoctor]

(* The piece of beginVisit after its delay; an unknown patient throws      *)
(* before anything is written.                                             *)
beginVisit(patientId) ==
    /\ Len(visits) < MaxVisits
    /\ IF \E i \in DOMAIN patients : patients[i] = patientId
       THEN /\ visits' = Append(visits, Visit(nextVisitId))
            /\ nextVisitId' = nextVisitId + 1
       ELSE UNCHANGED <<visits, nextVisitId>>
    /\ UNCHANGED <<doctors, patients, nextPatientId, inflight>>
    /\ UNCHANGED <<dashboard, simulation>>

(***************************************************************************)
(* finalizeTriage.                                                         *)
(***************************************************************************)
(* An increment that writes back 1, the load read before anybody was       *)
(* assigned plus one.                                                      *)
StaleIncrementLoad(ds, i) == [ds EXCEPT ![i].currentLoad = 1]

(* An increment that reaches every doctor of the roster.                   *)
IncrementEveryLoad(ds, i) == [j \in DOMAIN ds |-> [ds[j] EXCEPT !.currentLoad = @ + 1]]

(* assignedDoctor.currentLoad++ on the doctor at index i.                  *)
IncrementLoad(ds, i) == [ds EXCEPT ![i].currentLoad = @ + 1]

(* The value of routingResult.specialty when the object the lookup         *)
(* resolved to has no such property.                                       *)
Undefined == "undefined"

(* targetSpecialty.toLowerCase() at line 74 or 91 raises a TypeError: the  *)
(* target is undefined and the first pass of the loop is reached.          *)
ToLowerCaseThrows(ds, targetSpecialty) ==
    targetSpecialty = Undefined /\ Len(ActiveDoctors(ds)) > 0

(* Lines 214-231: the visit at index v is updated and handed to the        *)
(* assignment engine with the resolved specialty.  When the engine throws, *)
(* the writes of lines 215-220 stay and lines 225-231 are not reached.     *)
AssignVisit(v, priority, specialty) ==
    LET assignedDoctor == IF ToLowerCaseThrows(doctors, specialty) THEN 0
                          ELSE findBestDoctor(doctors, specialty, priority)
        roster == RosterAfterSelect(doctors, specialty, priority)
    IN  IF assignedDoctor # 0
        THEN /\ doctors' = IncrementLoad(roster, assignedDoctor)
             /\ visits' = [visits EXCEPT ![v].status = "waiting",
                                         ![v].priority = priority,
                                         ![v].assigned_doctor_id = doctors[assignedDoctor].id]
        ELSE /\ doctors' = roster
             /\ visits' = [visits EXCEPT ![v].status = "waiting",
                                         ![v].priority = priority]

(* AssignVisit while the loads of the roster sum to less than MaxTotalLoad.*)
CompleteTriage(v, priority, specialty) ==
    /\ findBestDoctor(doctors, specialty, priority) # 0 => TotalLoad(doctors) < MaxTotalLoad
    /\ AssignVisit(v, priority, specialty)

(* A finalizeTriage call up to its first suspension.  With a                *)
(* preCalculatedSpecialty (a non-empty string) nothing is awaited and the  *)
(* call runs to its end; otherwise it suspends in determineMedicalSpecialty*)
(* holding the visit it found and its summary.  An unknown visit throws.   *)
finalizeTriage(visitId, priority, preCalculatedSpecialty) ==
    LET visit == FindVisit(visits, visitId)
    IN  /\ IF visit = 0
           THEN UNCHANGED <<doctors, visits, inflight>>
           ELSE IF preCalculatedSpecialty # ""
           THEN /\ CompleteTriage(visit, priority, preCalculatedSpecialty)
                /\ UNCHANGED inflight
           ELSE /\ inflight' = inflight (+) SetToBag({[visit |-> visit, priority |-> priority]})
                /\ UNCHANGED <<doctors, visits>>
        /\ UNCHANGED <<patients, nextPatientId, nextVisitId>>
        /\ UNCHANGED <<dashboard, simulation>>

(* The suspended call p resumes with the specialty the lookup resolved to. *)
finalizeTriageResume(p, specialty) ==
    /\ BagIn(p, inflight)
    /\ CompleteTriage(p.visit, p.priority, specialty)
    /\ inflight' = inflight (-) SetToBag({p})
    /\ UNCHANGED <<patients, nextPatientId, nextVisitId>>
    /\ UNCHANGED <<dashboard, simulation>>

(***************************************************************************)
(* Consultation.                                                           *)
(***************************************************************************)
(* The visits after the body of updateVisitStatus(visitId, status) with    *)
(* the default empty `updates`; vs itself when the visit is unknown.       *)
SetVisitStatus(vs, visitId, status) ==
    LET visit == FindVisit(vs, visitId)
    IN  IF visit = 0 THEN vs ELSE [vs EXCEPT ![visit].status = status]

(* The piece of updateVisitStatus after its delay.                         *)
updateVisitStatus(visitId, status) ==
    /\ visits' = SetVisitStatus(visits, visitId, status)
    /\ UNCHANGED <<doctors, patients, nextPatientId, nextVisitId, inflight>>
    /\ UNCHANGED <<dashboard, simulation>>

(* doctor.currentLoad - 1 at index i, without the floor of Math.max.       *)
DecrementLoadUnfloored(ds, i) == [ds EXCEPT ![i].currentLoad = @ - 1]

(* doctor.currentLoad = Math.max(0, doctor.currentLoad - 1) at index i.    *)
DecrementLoad(ds, i) == [ds EXCEPT ![i].currentLoad = Max(0, @ - 1)]

(* The roster after the body of submitDiagnosis on the visit at index v.   *)
DischargeLoad(ds, vs, v) ==
    IF vs[v].assigned_doctor_id # NoDoctor
    THEN LET doctor == FindDoctor(ds, vs[v].assigned_doctor_id)
         IN  IF doctor # 0 THEN DecrementLoad(ds, doctor) ELSE ds
    ELSE ds

(* The store change of submitDiagnosis(visitId) after its delay.           *)
Discharge(visitId) ==
    LET visit == FindVisit(visits, visitId)
    IN  IF visit = 0
        THEN UNCHANGED <<doctors, visits>>
        ELSE /\ visits' = [visits EXCEPT ![visit].status = "seen"]
             /\ doctors' = DischargeLoad(doctors, visits, visit)

(* The piece of submitDiagnosis after its delay.                           *)
submitDiagnosis(visitId) ==
    /\ Discharge(visitId)
    /\ UNCHANGED <<patients, nextPatientId, nextVisitId, inflight>>
    /\ UNCHANGED <<dashboard, simulation>>

(***************************************************************************)
(* Inputs of the exported operations.                                      *)
(***************************************************************************)
(* Every id beginVisit can have issued, and the next one, never issued.    *)
VisitIdInputs == FirstVisitId .. (FirstVisitId + MaxVisits)

PatientIdInputs == FirstPatientId .. (FirstPatientId + MaxPatients)

(* "" is an absent preCalculatedSpecialty.                                 *)
PreCalculatedInputs == {"", "Neurology"}

(* The ids of the visits and patients there are.                           *)
KnownVisitIds == {visits[v].id : v \in DOMAIN visits}

KnownPatientIds == {patients[i] : i \in DOMAIN patients}

(***************************************************************************)
(* Spec: the visit lifecycle.  The store under arbitrary calls of          *)
(* createPatient, beginVisit, finalizeTriage, updateVisitStatus and        *)
(* submitDiagnosis, for non-Emergency visits routed to Neurology.          *)
(***************************************************************************)
LifecyclePriorities == {"Normal", "Priority"}

LifecycleSpecialties == {"neurology"}

Next ==
    \/ createPatient
    \/ \E patientId \in PatientIdInputs : beginVisit(patientId)
    \/ \E visitId \in VisitIdInputs, priority \in LifecyclePriorities,
          pre \in PreCalculatedInputs :
          /\ pre = "" => BagCardinality(inflight) < MaxInFlight
          /\ finalizeTriage(visitId, priority, pre)
    \/ \E p \in BagToSet(inflight), specialty \in LifecycleSpecialties :
          finalizeTriageResume(p, specialty)
    \/ \E visitId \in VisitIdInputs, status \in VisitStatuses :
          updateVisitStatus(visitId, status)
    \/ \E visitId \in VisitIdInputs : submitDiagnosis(visitId)

Spec == Init /\ [][Next]_vars

(***************************************************************************)
(* Counting visits.                                                        *)
(***************************************************************************)
(* The number of visits of vs that satisfy the waiting-and-assigned or     *)
(* in-consultation condition of the load ledger.                           *)
OccupyingVisits(vs) ==
    Cardinality({v \in DOMAIN vs :
        \/ vs[v].status = "waiting" /\ vs[v].assigned_doctor_id # NoDoctor
        \/ vs[v].status = "in_cabin"})

(* The number of visits of vs assigned to doctorId and not yet seen.       *)
OpenVisitsOf(vs, doctorId) ==
    Cardinality({v \in DOMAIN vs :
        vs[v].assigned_doctor_id = doctorId /\ vs[v].status # "seen"})

(* C1: load conservation.  In every state the loads of all doctors sum to  *)
(* the number of visits that are waiting with an assigned doctor or are in *)
(* the cabin.                                                              *)
C1_LoadConservation == TotalLoad(doctors) = OccupyingVisits(visits)

(* C2: in every state each doctor's currentLoad is the number of visits    *)
(* assigned to that doctor that are not yet seen.                          *)
C2_LoadIsOpenVisits ==
    \A i \in DOMAIN doctors :
        doctors[i].currentLoad = OpenVisitsOf(visits, doctors[i].id)

(* The only status changes of the visit state machine.                     *)
LegalTransitions ==
    {<<"triage", "waiting">>, <<"waiting", "in_cabin">>, <<"in_cabin", "seen">>}

(* C7: a visit's status only advances one step at a time along            *)
(* triage -> waiting -> in_cabin -> seen: every step leaves the status of  *)
(* each existing visit alone or moves it to the next state.                *)
C7_StatusAdvancesOneStep ==
    [][\A v \in DOMAIN visits :
          \/ visits'[v].status = visits[v].status
          \/ <<visits[v].status, visits'[v].status>> \in LegalTransitions]_vars

(* The visits that gain their assigned doctor in a step, and those that    *)
(* complete (reach seen) in it while assigned.                             *)
NewlyAssigned ==
    {v \in DOMAIN visits :
        visits[v].assigned_doctor_id = NoDoctor /\ visits'[v].assigned_doctor_id # NoDoctor}

NewlyCompleted ==
    {v \in DOMAIN visits :
        /\ visits[v].assigned_doctor_id # NoDoctor
        /\ visits[v].status # "seen"
        /\ visits'[v].status = "seen"}

(* C9: one increment per assignment and one decrement per completion.  In  *)
(* every step the total load rises by the number of visits that gain their *)
(* doctor in it and falls by the number of assigned visits that complete   *)
(* in it, so a repeated finalizeTriage or submitDiagnosis moves no load    *)
(* and no assigned visit reaches seen without a decrement.                 *)
C9_OneIncrementOneDecrement ==
    [][Len(doctors') = Len(doctors) =>
          TotalLoad(doctors') =
              TotalLoad(doctors) + Cardinality(NewlyAssigned) - Cardinality(NewlyCompleted)]_vars

(***************************************************************************)
(* SpecTriage: concurrent finalizeTriage calls on the initial roster.  Up  *)
(* to MaxConcurrent calls are suspended in the specialty lookup at once    *)
(* and resume in any order.                                                *)
(***************************************************************************)
MaxConcurrent == 2

TriagePriorities == {"Normal", "Emergency"}

TriageSpecialties == {"neurology"}

NextTriage ==
    \/ createPatient
    \/ \E patientId \in KnownPatientIds : beginVisit(patientId)
    \/ \E visitId \in KnownVisitIds, priority \in TriagePriorities,
          pre \in PreCalculatedInputs :
          /\ pre = "" => BagCardinality(inflight) < MaxConcurrent
          /\ finalizeTriage(visitId, priority, pre)
    \/ \E p \in BagToSet(inflight), specialty \in TriageSpecialties :
          finalizeTriageResume(p, specialty)

SpecTriage == Init /\ [][NextTriage]_vars

(* The specialties a finalizeTriage call can reach the engine with.        *)
EngineSpecialties == {"neurology", "Neurology"}

(* The step is the piece of a finalizeTriage call on the visit at index v  *)
(* that runs the assignment engine with the given priority and specialty:  *)
(* a call with a preCalculatedSpecialty, or the resumption of a suspended  *)
(* call.                                                                   *)
TriageCompletes(v, priority, specialty) ==
    /\ visits'[v].status = "waiting"
    /\ visits'[v].priority = priority
    /\ \/ finalizeTriage(visits[v].id, priority, specialty)
       \/ /\ BagIn([visit |-> v, priority |-> priority], inflight)
          /\ finalizeTriageResume([visit |-> v, priority |-> priority], specialty)

(* Some finalizeTriage call runs the assignment engine in the step.        *)
SomeTriageCompletes ==
    \E v \in DOMAIN visits, priority \in Priorities, specialty \in EngineSpecialties :
        TriageCompletes(v, priority, specialty)

(* C3: the read of the roster, the choice and the increment of a           *)
(* finalizeTriage call are one step.  A call that completes chooses the    *)
(* doctor findBestDoctor returns for the loads of the moment, which hold   *)
(* the increment of every call completed before it, and raises that        *)
(* doctor's load and the sum of the loads by exactly one; no other step    *)
(* moves the sum, so n successful calls raise it by n.                     *)
C3_ChoiceAndIncrementAtomic ==
    [][/\ \A v \in DOMAIN visits, priority \in Priorities, specialty \in EngineSpecialties :
             TriageCompletes(v, priority, specialty) =>
                 LET chosen == findBestDoctor(doctors, specialty, priority)
                 IN  chosen # 0 =>
                        /\ doctors'[chosen].currentLoad = doctors[chosen].currentLoad + 1
                        /\ TotalLoad(doctors') = TotalLoad(doctors) + 1
                        /\ visits'[v].assigned_doctor_id = doctors[chosen].id
       /\ TotalLoad(doctors') # TotalLoad(doctors) => SomeTriageCompletes]_vars

(* Two visits assigned to the same doctor, whose load counts both, while   *)
(* no call is left suspended.                                              *)
C3_Witness ==
    /\ inflight = EmptyBag
    /\ \E v, w \in DOMAIN visits, i \in DOMAIN doctors :
          /\ v # w
          /\ visits[v].assigned_doctor_id = doctors[i].id
          /\ visits[w].assigned_doctor_id = doctors[i].id
          /\ doctors[i].currentLoad = 2

(***************************************************************************)
(* SpecAdmin: one visit whose finalizeTriage calls interleave with the     *)
(* admin dashboard, which sets d_3 on break and back and adds Neurology     *)
(* doctors, active or on break.                                            *)
(***************************************************************************)
MaxRosterVisits == 1

MaxDoctors == 7

AdminDoctorIds == {3 * IdScale}

AdminStatuses == {"active", "break"}

NewDoctorSpecialties == {"Neurology"}

NewDoctorStatuses == {"active", "break"}

(* Math.random() of the doctors added in SpecAdmin.                        *)
AdminRandomInputs == {IdScale - 1}

NextAdmin ==
    \/ createPatient
    \/ \E patientId \in KnownPatientIds :
          /\ Len(visits) < MaxRosterVisits
          /\ beginVisit(patientId)
    \/ \E visitId \in KnownVisitIds, priority \in TriagePriorities,
          pre \in PreCalculatedInputs :
          /\ pre = "" => BagCardinality(inflight) < MaxInFlight
          /\ finalizeTriage(visitId, priority, pre)
    \/ \E p \in BagToSet(inflight), specialty \in TriageSpecialties :
          finalizeTriageResume(p, specialty)
    \/ \E doctorId \in AdminDoctorIds, status \in AdminStatuses :
          updateDoctorStatus(doctorId, status)
    \/ \E specialty \in NewDoctorSpecialties, status \in NewDoctorStatuses,
          r \in AdminRandomInputs :
          /\ Len(doctors) < MaxDoctors
          /\ addDoctor(specialty, status, r)

SpecAdmin == Init /\ [][NextAdmin]_vars

(* C4: the doctor a finalizeTriage call assigns is active when its load is *)
(* incremented, whatever updateDoctorStatus and addDoctor steps came       *)
(* before: a completing call leaves the roster alone or increments one     *)
(* doctor who is active in the state the step starts in, and the visit     *)
(* gets that doctor's id.                                                  *)
C4_AssignedDoctorIsActive ==
    [][\A v \in DOMAIN visits, priority \in Priorities, specialty \in EngineSpecialties :
          TriageCompletes(v, priority, specialty) =>
              \/ doctors' = doctors
              \/ \E i \in DOMAIN doctors :
                    /\ doctors[i].status = "active"
                    /\ doctors' = [doctors EXCEPT ![i].currentLoad = @ + 1]
                    /\ visits'[v].assigned_doctor_id = doctors[i].id]_vars

(* With d_3 on break a visit went to a doctor added after construction,    *)
(* whose load counts it.                                                   *)
C4_Witness ==
    \E v \in DOMAIN visits, i \in DOMAIN doctors :
        /\ i > Len(InitialDoctors)
        /\ visits[v].assigned_doctor_id = doctors[i].id
        /\ doctors[i].currentLoad = 1
        /\ doctors[3].status = "break"

(***************************************************************************)
(* SpecRoster: one visit while the admin dashboard takes the doctors off   *)
(* line one after the other from the head of the roster, until nobody is   *)
(* active, and sets d_6 active again.                                      *)
(***************************************************************************)
NoActiveDoctor == Len(ActiveDoctors(doctors)) = 0

(* The first active doctor, or d_6 when nobody is active.                  *)
DoctorIdInputs ==
    IF NoActiveDoctor THEN {6 * IdScale}
    ELSE {doctors[ActiveDoctors(doctors)[1]].id}

RosterSpecialties == {"neurology"}

RosterStatuses == {"active", "offline"}

NextRoster ==
    \/ createPatient
    \/ \E patientId \in KnownPatientIds :
          /\ Len(visits) < MaxRosterVisits
          /\ beginVisit(patientId)
    \/ \E visitId \in KnownVisitIds, priority \in Priorities,
          pre \in PreCalculatedInputs :
          /\ pre = "" => BagCardinality(inflight) < MaxInFlight
          /\ finalizeTriage(visitId, priority, pre)
    \/ \E p \in BagToSet(inflight), specialty \in RosterSpecialties :
          finalizeTriageResume(p, specialty)
    \/ \E doctorId \in DoctorIdInputs, status \in RosterStatuses :
          updateDoctorStatus(doctorId, status)

SpecRoster == Init /\ [][NextRoster]_vars

(* A suspended specialty lookup resolves: determineMedicalSpecialty        *)
(* returns a specialty on every path, errors included.                     *)
FairRoster ==
    SpecRoster /\ WF_vars(\E p \in BagToSet(inflight), specialty \in RosterSpecialties :
                              finalizeTriageResume(p, specialty))

WaitingUnassigned(v) ==
    /\ v \in DOMAIN visits
    /\ visits[v].status = "waiting"
    /\ visits[v].assigned_doctor_id = NoDoctor

(* C6: a visit left waiting without a doctor is retried: it does not stay  *)
(* unassigned for ever while some doctor is active from some moment on.    *)
C6_UnassignedVisitRetried ==
    \A v \in 1 .. MaxRosterVisits :
        [](WaitingUnassigned(v) => <>(~WaitingUnassigned(v) \/ NoActiveDoctor))

(***************************************************************************)
(* The doctor dashboard (views/DoctorDashboard.tsx).  `calls` holds the    *)
(* API calls of the dashboard whose delay has not elapsed, oldest first:   *)
(* the operation, its argument, the doctor id the calling closure holds,   *)
(* and whether the PatientChartPanel that awaits the handler is still      *)
(* mounted.                                                                *)
(***************************************************************************)
MaxCalls == 2

(* delay(ms) of the three API operations the dashboard calls.              *)
Delay(op) ==
    CASE op = "getTodaysVisits" -> 50
      [] op = "updateVisitStatus" -> 300
      [] op = "submitDiagnosis" -> 600

(* The timer of calls[i] can be the next to fire: no call issued before it *)
(* has a delay that is not longer.                                         *)
CanFire(i) ==
    /\ i \in DOMAIN calls
    /\ \A j \in 1 .. (i - 1) : Delay(calls[j].op) > Delay(calls[i].op)

Remove(cs, i) == [k \in 1 .. (Len(cs) - 1) |-> IF k < i THEN cs[k] ELSE cs[k + 1]]

Call(op, visitId, doctorId, panel) ==
    [op |-> op, visitId |-> visitId, doctorId |-> doctorId, panel |-> panel]

(* The pending calls once the chart panel is unmounted: its setIsSaving    *)
(* no longer reaches a mounted component.                                  *)
Unmounted(cs) == [k \in DOMAIN cs |-> [cs[k] EXCEPT !.panel = FALSE]]

(* getTodaysVisits filtered and mapped as fetchData does.                  *)
MyVisits(vs, doctorId) ==
    LET Mine(v) == v.assigned_doctor_id = doctorId
        mine == SelectSeq(vs, Mine)
    IN  [k \in DOMAIN mine |-> Session(mine[k])]

(* allMyVisits.find(v => v.status === 'in_cabin') || null                  *)
PatientInCabin(view) ==
    IF \E k \in DOMAIN view : view[k].status = "in_cabin"
    THEN view[CHOOSE k \in DOMAIN view :
                  /\ view[k].status = "in_cabin"
                  /\ \A j \in 1 .. (k - 1) : view[j].status # "in_cabin"]
    ELSE NoSession

(* The sessions PatientQueuePanel offers for selection.                    *)
Selectable(view) ==
    {view[k] : k \in {j \in DOMAIN view : view[j].status \in {"waiting", "assigned", "in_cabin"}}}

(* handleLogin: the dashboard and a fresh chart panel render and the       *)
(* effect on currentUser calls fetchData at once.                          *)
handleLogin(doctorId) ==
    /\ currentUser = NoDoctor
    /\ currentUser' = doctorId
    /\ isSaving' = FALSE
    /\ calls' = Append(calls, Call("getTodaysVisits", 0, doctorId, FALSE))
    /\ UNCHANGED <<allMyVisits, selectedSession>>
    /\ UNCHANGED <<store, simulation>>

(* handleLogout: the login screen replaces the panels; allMyVisits stays.  *)
handleLogout ==
    /\ currentUser # NoDoctor
    /\ currentUser' = NoDoctor
    /\ selectedSession' = NoSession
    /\ isSaving' = FALSE
    /\ calls' = Unmounted(calls)
    /\ UNCHANGED allMyVisits
    /\ UNCHANGED <<store, simulation>>

(* The 2.5 s interval calls fetchData.                                     *)
pollFetchData ==
    /\ currentUser # NoDoctor
    /\ calls' = Append(calls, Call("getTodaysVisits", 0, currentUser, FALSE))
    /\ UNCHANGED <<currentUser, allMyVisits, selectedSession, isSaving>>
    /\ UNCHANGED <<store, simulation>>

handleSelectPatient(session) ==
    /\ currentUser # NoDoctor
    /\ session \in Selectable(allMyVisits)
    /\ selectedSession' = session
    /\ UNCHANGED <<currentUser, allMyVisits, isSaving, calls>>
    /\ UNCHANGED <<store, simulation>>

(* A click on `Call to Cabin`: the button is there for a selected session  *)
(* not shown in_cabin and is disabled while saving or while the view shows *)
(* another patient in the cabin; handleCallToCabin then alerts and returns *)
(* if the view shows a patient in the cabin, and calls updateVisitStatus   *)
(* otherwise.                                                              *)
handleCallToCabin ==
    LET patientInCabin == PatientInCabin(allMyVisits)
    IN  /\ currentUser # NoDoctor
        /\ selectedSession # NoSession
        /\ selectedSession.status # "in_cabin"
        /\ ~isSaving
        /\ ~(patientInCabin # NoSession /\ patientInCabin.id # selectedSession.id)
        /\ IF patientInCabin # NoSession
           THEN UNCHANGED <<isSaving, calls>>
           ELSE /\ isSaving' = TRUE
                /\ calls' = Append(calls, Call("updateVisitStatus", selectedSession.id,
                                               currentUser, TRUE))
        /\ UNCHANGED <<currentUser, allMyVisits, selectedSession>>
        /\ UNCHANGED <<store, simulation>>

(* A click on `Mark as Seen`, shown for a selected session in_cabin.       *)
handleMarkSeen ==
    /\ currentUser # NoDoctor
    /\ selectedSession.status = "in_cabin"
    /\ ~isSaving
    /\ isSaving' = TRUE
    /\ calls' = Append(calls, Call("submitDiagnosis", selectedSession.id, currentUser, TRUE))
    /\ UNCHANGED <<currentUser, allMyVisits, selectedSession>>
    /\ UNCHANGED <<store, simulation>>

(* The fetchData that a handler awaits after its API call returned.        *)
ThenFetchData(i) ==
    Append(Remove(calls, i), Call("getTodaysVisits", 0, calls[i].doctorId, calls[i].panel))

(* updateVisitStatus(id, 'in_cabin') of handleCallToCabin runs and the     *)
(* handler goes on to fetchData.                                           *)
callToCabinReturns(i) ==
    /\ CanFire(i)
    /\ calls[i].op = "updateVisitStatus"
    /\ visits' = SetVisitStatus(visits, calls[i].visitId, "in_cabin")
    /\ calls' = ThenFetchData(i)
    /\ UNCHANGED <<doctors, patients, nextPatientId, nextVisitId, inflight>>
    /\ UNCHANGED <<currentUser, allMyVisits, selectedSession, isSaving>>
    /\ UNCHANGED simulation

(* submitDiagnosis of handleMarkSeen runs; the handler clears the          *)
(* selection (it was called for the selected session) and goes on to       *)
(* fetchData.                                                              *)
markSeenReturns(i) ==
    /\ CanFire(i)
    /\ calls[i].op = "submitDiagnosis"
    /\ Discharge(calls[i].visitId)
    /\ selectedSession' = NoSession
    /\ calls' = ThenFetchData(i)
    /\ UNCHANGED <<patients, nextPatientId, nextVisitId, inflight>>
    /\ UNCHANGED <<currentUser, allMyVisits, isSaving>>
    /\ UNCHANGED simulation

(* getTodaysVisits returns to fetchData: the view is replaced, the effect  *)
(* on patientInCabin moves the selection to a patient newly shown in the   *)
(* cabin, and a click handler that awaited this fetchData clears isSaving  *)
(* of its panel.                                                           *)
fetchDataReturns(i) ==
    /\ CanFire(i)
    /\ calls[i].op = "getTodaysVisits"
    /\ allMyVisits' = MyVisits(visits, calls[i].doctorId)
    /\ LET patientInCabin == PatientInCabin(allMyVisits')
       IN  selectedSession' =
               IF patientInCabin # NoSession /\ selectedSession.id # patientInCabin.id
               THEN patientInCabin
               ELSE selectedSession
    /\ isSaving' = IF calls[i].panel THEN FALSE ELSE isSaving
    /\ calls' = Remove(calls, i)
    /\ UNCHANGED currentUser
    /\ UNCHANGED <<store, simulation>>

(***************************************************************************)
(* SpecDashboard: Normal visits triaged with a known specialty, as the     *)
(* backlog simulation does, and the dashboard of d_3.                      *)
(***************************************************************************)
DashboardDoctors == {3 * IdScale}

DashboardPriorities == {"Normal"}

DashboardSpecialties == {"Neurology"}

NextDashboard ==
    \/ createPatient
    \/ \E patientId \in PatientIdInputs : beginVisit(patientId)
    \/ \E visitId \in VisitIdInputs, priority \in DashboardPriorities,
          pre \in DashboardSpecialties :
          finalizeTriage(visitId, priority, pre)
    \/ \E doctorId \in DashboardDoctors :
          /\ Len(calls) < MaxCalls
          /\ handleLogin(doctorId)
    \/ handleLogout
    \/ Len(calls) < MaxCalls /\ pollFetchData
    \/ \E session \in Selectable(allMyVisits) : handleSelectPatient(session)
    \/ Len(calls) < MaxCalls /\ handleCallToCabin
    \/ Len(calls) < MaxCalls /\ handleMarkSeen
    \/ \E i \in DOMAIN calls : callToCabinReturns(i)
    \/ \E i \in DOMAIN calls : markSeenReturns(i)
    \/ \E i \in DOMAIN calls : fetchDataReturns(i)

SpecDashboard == Init /\ [][NextDashboard]_vars

(* The visits assigned to doctorId that are in the cabin.                  *)
InCabinOf(vs, doctorId) ==
    {v \in DOMAIN vs : vs[v].assigned_doctor_id = doctorId /\ vs[v].status = "in_cabin"}

(* C8: at most one visit per doctor is in_cabin in every state, call-ins   *)
(* issued concurrently or from a stale dashboard view included.            *)
C8_OneInCabinPerDoctor ==
    \A i \in DOMAIN doctors : Cardinality(InCabinOf(visits, doctors[i].id)) <= 1

(***************************************************************************)
(* SpecEngine: the rosters findBestDoctor is called on.  The admin         *)
(* dashboard adds doctors up to MaxEngineDoctors and sets d_1 on break and *)
(* back while one non-Emergency visit is triaged again and again with a    *)
(* known specialty.                                                        *)
(***************************************************************************)
MaxEngineDoctors == 10

EnginePriorities == {"Normal", "Priority"}

(* A specialty of two initial doctors, one that no initial doctor has and  *)
(* that of d_5, who is on break.                                           *)
EngineTargets == {"Internal Medicine", "Cardiology", "Neurosurgery"}

EngineDoctorIds == {IdScale}

EngineStatuses == {"active", "break"}

NewEngineSpecialties == {"Cardiology"}

NewEngineStatuses == {"active"}

(* Math.random() of the doctors added in SpecEngine: ids d_7.5, d_8.5 ...  *)
EngineRandomInputs == {IdScale - 1}

NextEngine ==
    \/ createPatient
    \/ \E patientId \in KnownPatientIds :
          /\ Len(visits) < MaxRosterVisits
          /\ beginVisit(patientId)
    \/ \E visitId \in KnownVisitIds, priority \in EnginePriorities,
          pre \in EngineTargets :
          finalizeTriage(visitId, priority, pre)
    \/ \E doctorId \in EngineDoctorIds, status \in EngineStatuses :
          updateDoctorStatus(doctorId, status)
    \/ \E specialty \in NewEngineSpecialties, status \in NewEngineStatuses,
          r \in EngineRandomInputs :
          /\ Len(doctors) < MaxEngineDoctors
          /\ addDoctor(specialty, status, r)

SpecEngine == Init /\ [][NextEngine]_vars

(* The active doctors of least total cost for the target, as indices.      *)
Cheapest(ds, targetSpecialty) ==
    LET activeDoctors == ActiveDoctors(ds)
        n == Len(activeDoctors)
        sum == SumLoads(ds, activeDoctors)
        active == {activeDoctors[k] : k \in DOMAIN activeDoctors}
        cost == [i \in active |-> TotalCost(ds[i], targetSpecialty, sum, n)]
    IN  {i \in active : \A j \in active : cost[i] <= cost[j]}

(* a <= b for strings compared by code units, as JavaScript compares them. *)
StringLeq(a, b) ==
    \/ a = b
    \/ \E k \in 1 .. Len(b) :
          /\ \A j \in 1 .. (k - 1) : j <= Len(a) /\ a[j] = b[j]
          /\ k > Len(a) \/ a[k] < b[k]

(* C10 as stated: for a non-Emergency visit and a roster with an active    *)
(* doctor, findBestDoctor returns an active doctor of least total cost,    *)
(* and among the doctors of that cost the one whose id string is lowest.   *)
C10_LowestIdString ==
    \A targetSpecialty \in EngineTargets, priority \in EnginePriorities :
        ~NoActiveDoctor =>
            LET best == findBestDoctor(doctors, targetSpecialty, priority)
                cheapest == Cheapest(doctors, targetSpecialty)
            IN  /\ best \in cheapest
                /\ \A i \in cheapest :
                      StringLeq(IdString(doctors[best].id), IdString(doctors[i].id))

(* C10 amended: for a non-Emergency visit and a roster with an active      *)
(* doctor, findBestDoctor returns an active doctor of least total cost,    *)
(* and among the doctors of that cost the one that comes first in the      *)
(* roster, which is the one whose id has the lowest number after `d_`.     *)
C10_FirstOfLeastCost ==
    \A targetSpecialty \in EngineTargets, priority \in EnginePriorities :
        ~NoActiveDoctor =>
            LET best == findBestDoctor(doctors, targetSpecialty, priority)
                cheapest == Cheapest(doctors, targetSpecialty)
            IN  /\ best \in cheapest
                /\ \A i \in cheapest :
                      best <= i /\ doctors[best].id <= doctors[i].id

(* A Normal visit is assigned to an added doctor, and for Cardiology the   *)
(* engine now picks the first of several doctors of least cost although    *)
(* the tenth doctor, whose id string starts `d_10`, is among them and has  *)
(* the lower id string.                                                    *)
C10_Witness ==
    LET best == findBestDoctor(doctors, "Cardiology", "Normal")
    IN  /\ Len(doctors) = 10
        /\ 10 \in Cheapest(doctors, "Cardiology")
        /\ best < 10
        /\ ~StringLeq(IdString(doctors[best].id), IdString(doctors[10].id))
        /\ \E v \in DOMAIN visits :
              /\ visits[v].priority = "Normal"
              /\ visits[v].assigned_doctor_id = doctors[7].id

(***************************************************************************)
(* The cost function of the standard path.                                 *)
(***************************************************************************)
(* The indices of the active doctors, as a set.                            *)
ActiveSet(ds) == {i \in DOMAIN ds : ds[i].status = "active"}

(* C11: for a non-Emergency visit the cost minimised for each active       *)
(* doctor is the sum of four terms: the mismatch cost (0 when the doctor's *)
(* specialty equals the target without regard to case, 10000 otherwise),   *)
(* the estimated wait (currentLoad * 900), the load penalty (max(0,        *)
(* currentLoad - average load of the active doctors) * 300) and a shift    *)
(* penalty, which is always computed as a fourth term.  Costs are compared *)
(* multiplied by the number of active doctors.                             *)
C11_FourCostTerms ==
    \A targetSpecialty \in EngineTargets : \A i \in ActiveSet(doctors) :
        LET n == Cardinality(ActiveSet(doctors))
            sum == SumLoads(doctors, ActiveDoctors(doctors))
            d == doctors[i]
            terms == CostTerms(d, targetSpecialty, sum, n)
        IN  /\ terms.mismatchCost =
                  (IF ToLowerCase(d.specialty) = ToLowerCase(targetSpecialty)
                   THEN 0 ELSE n * 10000)
            /\ terms.estimatedWait = n * d.currentLoad * 900
            /\ terms.loadPenalty = Max(0, n * d.currentLoad - sum) * 300
            /\ Cardinality(DOMAIN terms) = 4
            /\ \E shiftPenalty \in DOMAIN terms :
                  TotalCost(d, targetSpecialty, sum, n) =
                      terms.mismatchCost + terms.estimatedWait
                      + terms.loadPenalty + terms[shiftPenalty]

(***************************************************************************)
(* The assignment engine on rosters of many loads.  The loads a roster can *)
(* carry are not bounded by the code: with k the only active doctor, each  *)
(* finalizeTriage of an existing visit raises k's load by one.  InitDrawn  *)
(* draws the store after such a run: visit 1 has been finalised as often   *)
(* as the loads say, for one doctor after the other in roster order, the   *)
(* statuses have then been set, and visit 2 has just begun.                *)
(***************************************************************************)
(* The greatest load drawn for a doctor other than d_3.                    *)
MaxDrawnLoad == 2

(* The greatest load drawn for d_3, the only doctor of its specialty.      *)
MaxSpecialistLoad == 10

(* The positions of d_3 (Neurology) and d_5 (Neurosurgery, on break).      *)
Specialist == 3

Reserve == 5

DrawnLoads ==
    {[i \in 1 .. 6 |-> IF i = Specialist THEN s ELSE IF i = Reserve THEN 0 ELSE l[i]] :
        l \in [(1 .. 6) \ {Specialist, Reserve} -> 0 .. MaxDrawnLoad],
        s \in 0 .. MaxSpecialistLoad}

DrawnStatuses ==
    {[i \in 1 .. 6 |-> IF i \in {Specialist, Reserve} THEN t[i] ELSE "active"] :
        t \in [{Specialist, Reserve} -> {"active", "break"}]}

DrawnRosters ==
    {[i \in 1 .. 6 |-> [InitialDoctors[i] EXCEPT !.currentLoad = load[i],
                                                 !.status = status[i]]] :
        load \in DrawnLoads, status \in DrawnStatuses}

(* The id visit 1 is left with: that of the last doctor it was assigned to.*)
LastAssigned(ds) ==
    LET loaded == {i \in DOMAIN ds : ds[i].currentLoad > 0}
    IN  IF loaded = {} THEN NoDoctor
        ELSE ds[CHOOSE i \in loaded : \A j \in loaded : j <= i].id

InitDrawn ==
    /\ doctors \in DrawnRosters
    /\ patients = << FirstPatientId >>
    /\ visits = << [Visit(FirstVisitId) EXCEPT !.status = "waiting",
                                               !.assigned_doctor_id = LastAssigned(doctors)],
                   Visit(FirstVisitId + 1) >>
    /\ nextPatientId = FirstPatientId + 1
    /\ nextVisitId = FirstVisitId + 2
    /\ inflight = EmptyBag
    /\ currentUser = NoDoctor
    /\ allMyVisits = << >>
    /\ selectedSession = NoSession
    /\ isSaving = FALSE
    /\ calls = << >>
    /\ simulation = NotStarted

(* finalizeTriage(visitId, summary, transcript, preCalculatedSpecialty)    *)
(* with a preCalculatedSpecialty, on a roster of any load.                 *)
finalizeTriageDrawn(visitId, priority, preCalculatedSpecialty) ==
    LET visit == FindVisit(visits, visitId)
    IN  /\ visit # 0
        /\ preCalculatedSpecialty # ""
        /\ AssignVisit(visit, priority, preCalculatedSpecialty)
        /\ UNCHANGED <<patients, nextPatientId, nextVisitId, inflight>>
        /\ UNCHANGED <<dashboard, simulation>>

DrawnPriorities == {"Normal", "Emergency"}

(* The specialty of d_3, that of d_1 and d_4 in lower case, and one that   *)
(* no initial doctor has.                                                  *)
DrawnTargets == {"Neurology", "internal medicine", "Cardiology"}

(* The visits still in triage are finalised.                               *)
NextDrawn ==
    \E v \in DOMAIN visits, priority \in DrawnPriorities, pre \in DrawnTargets :
        /\ visits[v].status = "triage"
        /\ finalizeTriageDrawn(visits[v].id, priority, pre)

SpecDrawn == InitDrawn /\ [][NextDrawn]_vars

(***************************************************************************)
(* The Emergency branch.                                                   *)
(***************************************************************************)
(* The active doctors whose load is at most the average load of the active *)
(* doctors, or all active doctors if there is none; as positions.          *)
Candidates(ds) ==
    LET active == ActiveSet(ds)
        n == Cardinality(active)
        sum == SumLoads(ds, ActiveDoctors(ds))
        lessBusy == {i \in active : ds[i].currentLoad * n <= sum}
    IN  IF lessBusy # {} THEN lessBusy ELSE active

(* The doctors at the positions S whose specialty is the target when both  *)
(* are put in lower case.                                                  *)
Matching(ds, S, targetSpecialty) ==
    {i \in S : ToLowerCase(ds[i].specialty) = ToLowerCase(targetSpecialty)}

(* C12: for an Emergency visit and a roster with an active doctor, the     *)
(* candidates are the active doctors whose load is at most the average     *)
(* (all active doctors if there is none); if a candidate matches the       *)
(* target specialty without regard to case, findBestDoctor returns a       *)
(* matching candidate of lowest load among the matching candidates, and    *)
(* otherwise a candidate of lowest load.                                   *)
C12_EmergencyChoice ==
    \A targetSpecialty \in DrawnTargets :
        ActiveSet(doctors) # {} =>
            LET best == findBestDoctor(doctors, targetSpecialty, "Emergency")
                candidates == Candidates(doctors)
                matching == Matching(doctors, candidates, targetSpecialty)
                pool == IF matching # {} THEN matching ELSE candidates
            IN  /\ best \in pool
                /\ \A j \in pool : doctors[best].currentLoad <= doctors[j].currentLoad

(* An Emergency visit has been given to d_4, which had a lower load than   *)
(* d_1, the other doctor of its specialty, while a doctor of another       *)
(* specialty had a lower load still; both were candidates.  A further      *)
(* Emergency visit for a specialty nobody has goes to the least loaded     *)
(* candidate.                                                              *)
C12_Witness ==
    /\ Len(visits) = 2
    /\ visits[2].status = "waiting"
    /\ visits[2].priority = "Emergency"
    /\ visits[2].assigned_doctor_id = doctors[4].id
    /\ doctors[4].currentLoad = 2
    /\ doctors[1].currentLoad = 2
    /\ doctors[2].currentLoad = 0
    /\ {1, 2, 4} \subseteq Candidates(doctors)
    /\ findBestDoctor(doctors, "internal medicine", "Emergency") = 1
    /\ findBestDoctor(doctors, "Cardiology", "Emergency") = 2

(* C13: for an Emergency visit, whenever some active doctor whose load is  *)
(* at most the average matches the target specialty, findBestDoctor        *)
(* returns a matching doctor of that subset, also when a matching doctor   *)
(* above the average exists.                                               *)
C13_EmergencyMatchAtOrBelowAverage ==
    \A targetSpecialty \in DrawnTargets :
        LET active == ActiveSet(doctors)
            n == Cardinality(active)
            sum == SumLoads(doctors, ActiveDoctors(doctors))
            atOrBelow == {i \in active : doctors[i].currentLoad * n <= sum}
            best == findBestDoctor(doctors, targetSpecialty, "Emergency")
        IN  Matching(doctors, atOrBelow, targetSpecialty) # {} =>
                best \in Matching(doctors, atOrBelow, targetSpecialty)

(* An Emergency visit has been given to d_4 (load 0 before, below the      *)
(* average) while d_1, of the same specialty, was above the average and    *)
(* d_2 and d_6 had no load either.                                         *)
C13_Witness ==
    /\ Len(visits) = 2
    /\ visits[2].status = "waiting"
    /\ visits[2].priority = "Emergency"
    /\ visits[2].assigned_doctor_id = doctors[4].id
    /\ doctors[4].currentLoad = 1
    /\ doctors[1].currentLoad = 2
    /\ doctors[2].currentLoad = 0
    /\ doctors[6].currentLoad = 0
    /\ doctors[3].status = "break"
    /\ doctors[5].status = "break"

(***************************************************************************)
(* Triage without a preCalculatedSpecialty: the specialty is what          *)
(* determineMedicalSpecialty resolves to, which is the `specialty`         *)
(* property of the parsed reply or of a fallback object.                   *)
(***************************************************************************)
(* A specialty of the roster, the empty string and a reply without the     *)
(* property.                                                               *)
LookupSpecialties == {"Neurology", "", Undefined}

LookupPriorities == {"Normal", "Emergency"}

NextLookup ==
    \/ createPatient
    \/ \E patientId \in KnownPatientIds : beginVisit(patientId)
    \/ \E visitId \in KnownVisitIds, priority \in LookupPriorities :
          /\ BagCardinality(inflight) < MaxInFlight
          /\ finalizeTriage(visitId, priority, "")
    \/ \E p \in BagToSet(inflight), specialty \in LookupSpecialties :
          finalizeTriageResume(p, specialty)

SpecLookup == Init /\ [][NextLookup]_vars

(* C14: when the required specialty that reaches the engine is missing or  *)
(* empty, it is treated as matching any specialty: the mismatch cost is 0  *)
(* for every doctor, no error is raised, and with an active doctor the     *)
(* visit ends waiting with an assigned doctor.                             *)
C14_MissingSpecialtyMatchesAny ==
    [][\A p \in BagToSet(inflight), specialty \in {"", Undefined} :
          (ActiveSet(doctors) # {} /\ finalizeTriageResume(p, specialty)) =>
              /\ ~ToLowerCaseThrows(doctors, specialty)
              /\ visits'[p.visit].status = "waiting"
              /\ visits'[p.visit].assigned_doctor_id # NoDoctor
              /\ \A i \in ActiveSet(doctors) :
                    CostTerms(doctors[i], specialty, 0, 1).mismatchCost = 0]_vars

(***************************************************************************)
(* Properties of the standard path on the drawn rosters.                   *)
(***************************************************************************)
StandardPriorities == Priorities \ {"Emergency"}

(* C15: with the constants of lines 50-52, for a non-Emergency visit: if   *)
(* some active doctor matches the target specialty and its load exceeds    *)
(* the load of every mismatched active doctor by at most 8, the doctor     *)
(* findBestDoctor returns matches the specialty, whatever the number of    *)
(* active doctors and their average load.                                  *)
C15_SpecialtyDominance ==
    \A targetSpecialty \in DrawnTargets, priority \in StandardPriorities :
        LET active == ActiveSet(doctors)
            matched == Matching(doctors, active, targetSpecialty)
            mismatched == active \ matched
            best == findBestDoctor(doctors, targetSpecialty, priority)
        IN  (\E m \in matched : \A x \in mismatched :
                doctors[m].currentLoad - doctors[x].currentLoad <= 8)
            => best \in matched

(* A Normal visit has been given to d_3, the only doctor of its specialty, *)
(* when d_3 had a load of 8 and every other active doctor a load of 0.     *)
C15_Witness ==
    /\ Len(visits) = 2
    /\ visits[2].status = "waiting"
    /\ visits[2].priority = "Normal"
    /\ visits[2].assigned_doctor_id = doctors[Specialist].id
    /\ doctors[Specialist].currentLoad = 9
    /\ \A i \in DOMAIN doctors : i # Specialist => doctors[i].currentLoad = 0
    /\ findBestDoctor(doctors, "Neurology", "Normal") # Specialist

(* C16: of two active doctors that differ only in load (and in id and      *)
(* name), the one with the strictly higher currentLoad has a strictly      *)
(* higher estimated wait and a total cost that is not lower, for every     *)
(* target, and findBestDoctor does not return it for a non-Emergency       *)
(* visit.                                                                  *)
C16_CostMonotoneInLoad ==
    \A targetSpecialty \in DrawnTargets, priority \in StandardPriorities :
        \A i, j \in ActiveSet(doctors) :
            (/\ doctors[i].specialty = doctors[j].specialty
             /\ doctors[i].currentLoad > doctors[j].currentLoad) =>
                LET n == Cardinality(ActiveSet(doctors))
                    sum == SumLoads(doctors, ActiveDoctors(doctors))
                    ci == CostTerms(doctors[i], targetSpecialty, sum, n)
                    cj == CostTerms(doctors[j], targetSpecialty, sum, n)
                IN  /\ ci.estimatedWait > cj.estimatedWait
                    /\ TotalCost(doctors[i], targetSpecialty, sum, n)
                          >= TotalCost(doctors[j], targetSpecialty, sum, n)
                    /\ findBestDoctor(doctors, targetSpecialty, priority) # i

(* A Normal visit has been given to d_4, which had no load, and not to     *)
(* d_1, of the same specialty and with a load of 2, while the doctors of   *)
(* other specialties had at least the load of d_1.                         *)
C16_Witness ==
    /\ Len(visits) = 2
    /\ visits[2].status = "waiting"
    /\ visits[2].priority = "Normal"
    /\ visits[2].assigned_doctor_id = doctors[4].id
    /\ doctors[4].currentLoad = 1
    /\ doctors[1].currentLoad = 2
    /\ doctors[1].specialty = doctors[4].specialty
    /\ \A i \in ActiveSet(doctors) \ {1, 4} : doctors[i].currentLoad >= 2
    /\ findBestDoctor(doctors, "internal medicine", "Normal") = 4

C18_PriorityImmutable ==
    [][\A v \in DOMAIN visits :
          visits[v].assigned_doctor_id # NoDoctor =>
              visits'[v].priority = visits[v].priority]_vars

(* Triage and discharge of the visits of the day, by the ids issued.       *)
DischargeTargets == {"Neurology", "Cardiology"}

NextDischarge ==
    \/ createPatient
    \/ \E patientId \in KnownPatientIds :
          /\ Len(visits) < MaxVisits
          /\ beginVisit(patientId)
    \/ \E visitId \in KnownVisitIds, pre \in DischargeTargets :
          finalizeTriage(visitId, "Normal", pre)
    \/ \E visitId \in KnownVisitIds : submitDiagnosis(visitId)

SpecDischarge == Init /\ [][NextDischarge]_vars

(* C19: in every reachable state the currentLoad of every doctor is a      *)
(* non-negative integer; a decrement at 0 leaves 0.                        *)
C19_LoadNonNegative ==
    \A i \in DOMAIN doctors : doctors[i].currentLoad \in Nat

(* A visit has been diagnosed and its doctor is at load 0 while another    *)
(* doctor still carries load from that visit: a further submitDiagnosis of *)
(* the visit decrements at 0.                                              *)
C19_Witness ==
    \E v \in DOMAIN visits :
        /\ visits[v].status = "seen"
        /\ visits[v].assigned_doctor_id = doctors[Specialist].id
        /\ doctors[Specialist].currentLoad = 0
        /\ doctors[1].currentLoad = 1
        /\ DischargeLoad(doctors, visits, v) = doctors

(***************************************************************************)
(* The standard path when nobody matches.                                  *)
(***************************************************************************)
(* The active doctors of least load, as positions.                         *)
LeastLoaded(ds) ==
    {i \in ActiveSet(ds) : \A j \in ActiveSet(ds) : ds[i].currentLoad <= ds[j].currentLoad}

(* C20 as stated: when no active doctor matches the target specialty of a  *)
(* non-Emergency visit, findBestDoctor returns an active doctor of lowest  *)
(* currentLoad, and among the doctors of that load the one whose id string *)
(* is lowest.                                                              *)
C20_LeastLoadedLowestIdString ==
    \A targetSpecialty \in EngineTargets, priority \in EnginePriorities :
        (/\ ActiveSet(doctors) # {}
         /\ Matching(doctors, ActiveSet(doctors), targetSpecialty) = {}) =>
            LET best == findBestDoctor(doctors, targetSpecialty, priority)
            IN  /\ best \in LeastLoaded(doctors)
                /\ \A i \in LeastLoaded(doctors) :
                      StringLeq(IdString(doctors[best].id), IdString(doctors[i].id))

(* C20 amended: when no active doctor matches the target specialty of a    *)
(* non-Emergency visit, findBestDoctor returns an active doctor of lowest  *)
(* currentLoad, and among the doctors of that load the one that comes      *)
(* first in the roster, whose id has the lowest number after `d_`.         *)
C20_LeastLoadedFirstInRoster ==
    \A targetSpecialty \in EngineTargets, priority \in EnginePriorities :
        (/\ ActiveSet(doctors) # {}
         /\ Matching(doctors, ActiveSet(doctors), targetSpecialty) = {}) =>
            LET best == findBestDoctor(doctors, targetSpecialty, priority)
            IN  /\ best \in LeastLoaded(doctors)
                /\ \A i \in LeastLoaded(doctors) :
                      best <= i /\ doctors[best].id <= doctors[i].id

(* With d_1 on break a Normal visit that nobody matched has gone to d_2,   *)
(* the first of the least loaded; the roster has since grown to ten, and   *)
(* for Neurosurgery, which no active doctor has, the engine now picks the  *)
(* first of the least loaded although the tenth doctor, whose id string    *)
(* starts `d_10`, is among them and has the lower id string.               *)
C20_Witness ==
    LET best == findBestDoctor(doctors, "Neurosurgery", "Normal")
    IN  /\ Len(doctors) = 10
        /\ doctors[1].status = "break"
        /\ Matching(doctors, ActiveSet(doctors), "Neurosurgery") = {}
        /\ {best, 10} \subseteq LeastLoaded(doctors)
        /\ best < 10
        /\ ~StringLeq(IdString(doctors[best].id), IdString(doctors[10].id))
        /\ \E v \in DOMAIN visits :
              /\ visits[v].status = "waiting"
              /\ visits[v].priority = "Normal"
              /\ visits[v].assigned_doctor_id = doctors[2].id

(***************************************************************************)
(* Assignments over the life of a visit.                                   *)
(***************************************************************************)
(* C21: Emergency visits are never revisited: once an Emergency visit has  *)
(* an assigned doctor, no later operation changes its assigned_doctor_id.  *)
C21_EmergencyNeverRevisited ==
    [][\A v \in DOMAIN visits :
          (visits[v].priority = "Emergency" /\ visits[v].assigned_doctor_id # NoDoctor) =>
              visits'[v].assigned_doctor_id = visits[v].assigned_doctor_id]_vars

C25_InCabinFromWaitingAssigned ==
    [][\A v \in DOMAIN visits :
          (visits'[v].status = "in_cabin" /\ visits[v].status # "in_cabin") =>
              /\ visits[v].status = "waiting"
              /\ visits[v].assigned_doctor_id # NoDoctor]_vars

(***************************************************************************)
(* Calls with ids that were never issued.                                  *)
(***************************************************************************)
UnknownTargets == {"Neurology", "Cardiology"}

(* One visit at a time, and every exported operation called with every id *)
(* of VisitIdInputs and PatientIdInputs, of which some were never issued.  *)
NextUnknown ==
    \/ createPatient
    \/ \E patientId \in PatientIdInputs :
          /\ Len(visits) < MaxRosterVisits
          /\ beginVisit(patientId)
    \/ \E visitId \in VisitIdInputs, priority \in Priorities,
          pre \in UnknownTargets :
          finalizeTriage(visitId, priority, pre)
    \/ \E visitId \in VisitIdInputs, status \in VisitStatuses :
          updateVisitStatus(visitId, status)
    \/ \E visitId \in VisitIdInputs : submitDiagnosis(visitId)

SpecUnknown == Init /\ [][NextUnknown]_vars

UnknownVisitIds == {visitId \in VisitIdInputs : \A v \in DOMAIN visits : visits[v].id # visitId}

UnknownPatientIds == {patientId \in PatientIdInputs : \A p \in DOMAIN patients : patients[p] # patientId}

AvailabilityDoctorIds == {1 * IdScale, 3 * IdScale, 7 * IdScale}

AvailabilityTargets == {"Neurology"}

NextAvailability ==
    \/ createPatient
    \/ \E patientId \in KnownPatientIds :
          /\ Len(visits) < MaxRosterVisits
          /\ beginVisit(patientId)
    \/ \E visitId \in KnownVisitIds, priority \in TriagePriorities,
          pre \in AvailabilityTargets :
          finalizeTriage(visitId, priority, pre)
    \/ \E doctorId \in AvailabilityDoctorIds, status \in DoctorStatuses :
          updateDoctorStatus(doctorId, status)

SpecAvailability == Init /\ [][NextAvailability]_vars

(* C27: updateDoctorStatus(doctorId, status) sets the status of the doctor *)
(* with that id and nothing else: the roster keeps its doctors, every      *)
(* doctor keeps its currentLoad, every other doctor keeps its status, and  *)
(* patients, visits (assigned_doctor_id and status included) and the id    *)
(* counters stay as they were; with an id no doctor has the whole store    *)
(* stays as it was.                                                        *)
C27_StatusChangeOnly ==
    [][\A doctorId \in AvailabilityDoctorIds, status \in DoctorStatuses :
          updateDoctorStatus(doctorId, status) =>
              /\ Len(doctors') = Len(doctors)
              /\ \A i \in DOMAIN doctors :
                    /\ doctors'[i].currentLoad = doctors[i].currentLoad
                    /\ doctors'[i].id = doctors[i].id
                    /\ doctors'[i].specialty = doctors[i].specialty
                    /\ doctors'[i].status =
                          IF doctors[i].id = doctorId THEN status ELSE doctors[i].status
              /\ <<patients, visits, nextPatientId, nextVisitId>> =
                    <<patients', visits', nextPatientId', nextVisitId'>>
              /\ (\A i \in DOMAIN doctors : doctors[i].id # doctorId) =>
                    store' = store]_vars

(* d_3 took a visit and then went on break: its load still counts the      *)
(* visit, which is still waiting for d_3, and d_1 went offline.            *)
C27_Witness ==
    /\ Len(visits) = 1
    /\ visits[1].status = "waiting"
    /\ visits[1].assigned_doctor_id = 3 * IdScale
    /\ doctors[3].status = "break"
    /\ doctors[3].currentLoad = 1
    /\ doctors[1].status = "offline"

(* C28: for an Emergency visit, when some doctor is active, the active     *)
(* doctors whose load is at most the average are not none, so the          *)
(* candidates of line 69 are that subset and never all active doctors,     *)
(* and the doctor findBestDoctor returns has a load of at most the         *)
(* average, with or without a specialty match.                             *)
C28_EmergencyChoiceAtOrBelowAverage ==
    \A targetSpecialty \in DrawnTargets :
        LET activeDoctors == ActiveDoctors(doctors)
            n == Len(activeDoctors)
            sum == SumLoads(doctors, activeDoctors)
            AtMostAvg(i) == doctors[i].currentLoad * n <= sum
            lessBusy == SelectSeq(activeDoctors, AtMostAvg)
            best == findBestDoctor(doctors, targetSpecialty, "Emergency")
        IN  n > 0 =>
                /\ Len(lessBusy) > 0
                /\ best # 0
                /\ AtMostAvg(best)

(* An Emergency visit has been given to d_1 while d_3, the only            *)
(* neurologist, is active with a load far above the average: a further     *)
(* Emergency visit for Neurology does not go to d_3.                       *)
C28_Witness ==
    /\ Len(visits) = 2
    /\ visits[2].status = "waiting"
    /\ visits[2].priority = "Emergency"
    /\ visits[2].assigned_doctor_id = doctors[1].id
    /\ doctors[1].currentLoad = 1
    /\ doctors[Specialist].status = "active"
    /\ doctors[Specialist].currentLoad = MaxSpecialistLoad
    /\ findBestDoctor(doctors, "Neurology", "Emergency") # Specialist

(***************************************************************************)
(* Load balance.  The roster is fixed: d_1 and d_4 (both Internal          *)
(* Medicine) are active and each other doctor is active or on break, a     *)
(* roster reached by updateDoctorStatus calls before the first visit.  All *)
(* loads are 0, MaxBalanceVisits visits have been begun and none is        *)
(* completed.                                                              *)
(***************************************************************************)
MaxBalanceVisits == 4

BalanceStatuses ==
    {[i \in 1 .. 6 |-> IF i \in {1, 4} THEN "active" ELSE t[i]] :
        t \in [{2, 3, 5, 6} -> {"active", "break"}]}

BalanceRosters ==
    {[i \in 1 .. 6 |-> [InitialDoctors[i] EXCEPT !.status = status[i]]] :
        status \in BalanceStatuses}

InitBalance ==
    /\ doctors \in BalanceRosters
    /\ patients = << FirstPatientId >>
    /\ visits = [v \in 1 .. MaxBalanceVisits |-> Visit(FirstVisitId + v - 1)]
    /\ nextPatientId = FirstPatientId + 1
    /\ nextVisitId = FirstVisitId + MaxBalanceVisits
    /\ inflight = EmptyBag
    /\ currentUser = NoDoctor
    /\ allMyVisits = << >>
    /\ selectedSession = NoSession
    /\ isSaving = FALSE
    /\ calls = << >>
    /\ simulation = NotStarted

(* The specialty of d_1 and d_4, that of d_3, and one nobody has.          *)
BalanceTargets == {"Internal Medicine", "Neurology", "Cardiology"}

(* Every active doctor has the specialty or none has.                      *)
AllOrNone(ds, targetSpecialty) ==
    Matching(ds, ActiveSet(ds), targetSpecialty) \in {{}, ActiveSet(ds)}

(* The visits in triage are finalised, in any order and with any priority, *)
(* for a specialty that all active doctors have or none has.               *)
NextBalance ==
    \E v \in DOMAIN visits, priority \in Priorities, pre \in BalanceTargets :
        /\ visits[v].status = "triage"
        /\ AllOrNone(doctors, pre)
        /\ finalizeTriageDrawn(visits[v].id, priority, pre)

SpecBalance == InitBalance /\ [][NextBalance]_vars

(* C29: from loads of 0, with a fixed roster and no completions, when      *)
(* every finalised visit requires a specialty that all active doctors have *)
(* or none has, the loads of any two active doctors differ by at most one  *)
(* after any sequence of finalizeTriage calls of any priority.             *)
C29_LoadBalance ==
    \A i, j \in ActiveSet(doctors) :
        doctors[i].currentLoad - doctors[j].currentLoad <= 1

(* Only d_1 and d_4 are active; three visits were shared out two and one,  *)
(* one of them an Emergency, and a visit for Internal Medicine, which both *)
(* have, goes to d_4.                                                      *)
C29_Witness ==
    /\ ActiveSet(doctors) = {1, 4}
    /\ doctors[1].currentLoad = 2
    /\ doctors[4].currentLoad = 1
    /\ \E v \in DOMAIN visits : visits[v].priority = "Emergency" /\ visits[v].status = "waiting"
    /\ \E v \in DOMAIN visits : visits[v].priority = "Priority" /\ visits[v].status = "waiting"
    /\ findBestDoctor(doctors, "Internal Medicine", "Normal") = 4
    /\ findBestDoctor(doctors, "Internal Medicine", "Emergency") = 4
    /\ AllOrNone(doctors, "Internal Medicine")

(***************************************************************************)
(* The patient simulation of part_001.  `simulation` holds patientIndex,   *)
(* the loop counter i of generateBacklog, the position of                  *)
(* startPatientSimulation (idle, backlog, live) and the journeys begun so  *)
(* far, each with its scenario, its locals patient and visit (0 until      *)
(* assigned) and its position.  Each step of a journey is the piece of     *)
(* code between two awaits.                                                *)
(***************************************************************************)
TARGET_PATIENT_COUNT == 16

MaxLiveArrivals == 2

(* patientScenarios: the specialty of each scenario and which of the words *)
(* 'chest' and 'breathing' its complaint includes.                         *)
Scenario(specialty, words) == [specialty |-> specialty, complaint |-> words]

patientScenarios ==
    << Scenario("General Surgery", {}),
       Scenario("Neurology", {}),
       Scenario("Internal Medicine", {}),
       Scenario("Internal Medicine", {"breathing"}),
       Scenario("Cardiology", {"chest"}),
       Scenario("General Surgery", {}),
       Scenario("Cardiology", {}),
       Scenario("Neurology", {}),
       Scenario("Internal Medicine", {}),
       Scenario("General Surgery", {}),
       Scenario("Internal Medicine", {}),
       Scenario("Internal Medicine", {}),
       Scenario("Neurology", {}),
       Scenario("General Surgery", {}),
       Scenario("Endocrinology", {}),
       Scenario("Neurology", {}) >>

(* summary.priority of simulatePatientJourney.                             *)
SummaryPriority(scenario) ==
    IF "chest" \in scenario.complaint \/ "breathing" \in scenario.complaint
    THEN "Emergency" ELSE "Normal"

(* patientIndex after `if (patientIndex >= length) patientIndex = 0`.      *)
WrappedIndex(sim) ==
    IF sim.patientIndex >= Len(patientScenarios) THEN 0 ELSE sim.patientIndex

(* simulatePatientJourney is called for patientScenarios[patientIndex++]   *)
(* (positions from 1 here) and runs up to its await of createPatient.      *)
BeginJourney(sim, backlog) ==
    [sim EXCEPT !.patientIndex = WrappedIndex(sim) + 1,
                !.journeys = Append(@, [scenario |-> WrappedIndex(sim) + 1,
                                        backlog |-> backlog,
                                        pc |-> "createPatient",
                                        patient |-> 0,
                                        visit |-> 0])]

(* A generateBacklog that does not await simulatePatientJourney.           *)
JourneyNotAwaited(sim) == TRUE

(* The await of line 129: generateBacklog goes on when the journey it      *)
(* started last has returned.                                              *)
JourneyAwaited(sim) ==
    \A j \in DOMAIN sim.journeys :
        sim.journeys[j].backlog => sim.journeys[j].pc = "done"

(* startPatientSimulation is called by the effect of App and enters        *)
(* generateBacklog.                                                        *)
startPatientSimulation ==
    /\ simulation.pc = "idle"
    /\ simulation' = [simulation EXCEPT !.pc = "backlog"]
    /\ UNCHANGED <<store, dashboard>>

(* One iteration of the loop of generateBacklog up to its await.           *)
generateBacklogNext ==
    /\ simulation.pc = "backlog"
    /\ simulation.i < TARGET_PATIENT_COUNT
    /\ JourneyAwaited(simulation)
    /\ simulation' = [BeginJourney(simulation, TRUE) EXCEPT !.i = @ + 1]
    /\ UNCHANGED <<store, dashboard>>

(* The loop ends, generateBacklog returns and startPatientSimulation calls *)
(* scheduleNextPatient.                                                    *)
scheduleNextPatient ==
    /\ simulation.pc = "backlog"
    /\ simulation.i >= TARGET_PATIENT_COUNT
    /\ JourneyAwaited(simulation)
    /\ simulation' = [simulation EXCEPT !.pc = "live"]
    /\ UNCHANGED <<store, dashboard>>

LiveJourneys(sim) == {j \in DOMAIN sim.journeys : ~sim.journeys[j].backlog}

(* The timer of scheduleNextPatient fires: a live journey begins and the   *)
(* next arrival is scheduled.                                              *)
liveArrival ==
    /\ simulation.pc = "live"
    /\ Cardinality(LiveJourneys(simulation)) < MaxLiveArrivals
    /\ simulation' = BeginJourney(simulation, FALSE)
    /\ UNCHANGED <<store, dashboard>>

(* createPatient returns to journey j.                                     *)
journeyCreatePatient(j) ==
    /\ simulation.journeys[j].pc = "createPatient"
    /\ patients' = Append(patients, nextPatientId)
    /\ nextPatientId' = nextPatientId + 1
    /\ simulation' = [simulation EXCEPT !.journeys[j].patient = nextPatientId,
                                        !.journeys[j].pc = "beginVisit"]
    /\ UNCHANGED <<doctors, visits, nextVisitId, inflight>>
    /\ UNCHANGED dashboard

(* beginVisit(patient.id) returns to journey j; an unknown patient throws  *)
(* and the journey ends in its catch.                                      *)
journeyBeginVisit(j) ==
    /\ simulation.journeys[j].pc = "beginVisit"
    /\ IF \E i \in DOMAIN patients : patients[i] = simulation.journeys[j].patient
       THEN /\ visits' = Append(visits, Visit(nextVisitId))
            /\ nextVisitId' = nextVisitId + 1
            /\ simulation' = [simulation EXCEPT !.journeys[j].visit = nextVisitId,
                                                !.journeys[j].pc = "finalizeTriage"]
       ELSE /\ simulation' = [simulation EXCEPT !.journeys[j].pc = "done"]
            /\ UNCHANGED <<visits, nextVisitId>>
    /\ UNCHANGED <<doctors, patients, nextPatientId, inflight>>
    /\ UNCHANGED dashboard

(* Journey j calls finalizeTriage, after its triage delay if it is live.   *)
(* A backlog journey passes the specialty of its scenario and the call     *)
(* runs to its end; a live journey passes none and the call suspends in    *)
(* determineMedicalSpecialty.  An unknown visit throws.                    *)
journeyFinalizeTriage(j) ==
    LET journey == simulation.journeys[j]
        scenario == patientScenarios[journey.scenario]
        visit == FindVisit(visits, journey.visit)
    IN  /\ journey.pc = "finalizeTriage"
        /\ IF visit = 0
           THEN /\ simulation' = [simulation EXCEPT !.journeys[j].pc = "done"]
                /\ UNCHANGED <<doctors, visits>>
           ELSE IF journey.backlog
           THEN /\ AssignVisit(visit, SummaryPriority(scenario), scenario.specialty)
                /\ simulation' = [simulation EXCEPT !.journeys[j].pc = "done"]
           ELSE /\ simulation' = [simulation EXCEPT !.journeys[j].pc = "routing"]
                /\ UNCHANGED <<doctors, visits>>
        /\ UNCHANGED <<patients, nextPatientId, nextVisitId, inflight>>
        /\ UNCHANGED dashboard

(* The specialties determineMedicalSpecialty resolves to for live journeys.*)
LiveSpecialties == {"Neurology", "Cardiology"}

(* determineMedicalSpecialty resolves and the finalizeTriage call of live  *)
(* journey j runs to its end.                                              *)
journeyRoutingReturns(j, specialty) ==
    LET journey == simulation.journeys[j]
        scenario == patientScenarios[journey.scenario]
    IN  /\ journey.pc = "routing"
        /\ AssignVisit(FindVisit(visits, journey.visit), SummaryPriority(scenario), specialty)
        /\ simulation' = [simulation EXCEPT !.journeys[j].pc = "done"]
        /\ UNCHANGED <<patients, nextPatientId, nextVisitId, inflight>>
        /\ UNCHANGED dashboard

NextBacklog ==
    \/ startPatientSimulation
    \/ generateBacklogNext
    \/ scheduleNextPatient
    \/ liveArrival
    \/ \E j \in DOMAIN simulation.journeys : journeyCreatePatient(j)
    \/ \E j \in DOMAIN simulation.journeys : journeyBeginVisit(j)
    \/ \E j \in DOMAIN simulation.journeys : journeyFinalizeTriage(j)
    \/ \E j \in DOMAIN simulation.journeys, specialty \in LiveSpecialties :
          journeyRoutingReturns(j, specialty)

SpecBacklog == Init /\ [][NextBacklog]_vars

BacklogJourneys(sim) == {j \in DOMAIN sim.journeys : sim.journeys[j].backlog}

(* The backlog journey j has finalised its visit.                          *)
Finalized(j) ==
    /\ simulation.journeys[j].pc = "done"
    /\ \E v \in DOMAIN visits :
          /\ visits[v].id = simulation.journeys[j].visit
          /\ visits[v].status = "waiting"

(* C30: the backlog is generated one patient at a time: when a backlog     *)
(* journey has begun its visit, every earlier backlog journey has created  *)
(* its patient, begun its visit and finalised it; the visit ids and the    *)
(* positions in `visits` of the backlog follow the order of the scenarios; *)
(* the live loop is started, and a live journey exists, only when all      *)
(* TARGET_PATIENT_COUNT backlog journeys have finalised; and at that       *)
(* point, before a live visit is assigned, with the roster never changed,  *)
(* every backlog visit is waiting with the id of an active doctor and the  *)
(* loads sum to TARGET_PATIENT_COUNT.                                      *)
C30_BacklogSequential ==
    LET journeys == simulation.journeys
        backlog == BacklogJourneys(simulation)
    IN  /\ \A j, k \in backlog :
              (j < k /\ journeys[k].visit # 0) =>
                  /\ Finalized(j)
                  /\ journeys[j].patient # 0
                  /\ journeys[j].visit < journeys[k].visit
                  /\ FindVisit(visits, journeys[j].visit) < FindVisit(visits, journeys[k].visit)
                  /\ journeys[j].scenario < journeys[k].scenario
        /\ (simulation.pc = "live" \/ LiveJourneys(simulation) # {}) =>
              /\ Cardinality(backlog) = TARGET_PATIENT_COUNT
              /\ \A j \in backlog : Finalized(j)
        /\ (simulation.pc = "live" /\ \A j \in LiveJourneys(simulation) : journeys[j].pc # "done") =>
              /\ \A j \in backlog :
                    LET v == FindVisit(visits, journeys[j].visit)
                        doctor == FindDoctor(doctors, visits[v].assigned_doctor_id)
                    IN  /\ visits[v].status = "waiting"
                        /\ visits[v].assigned_doctor_id # NoDoctor
                        /\ doctor # 0
                        /\ doctors[doctor].status = "active"
              /\ TotalLoad(doctors) = TARGET_PATIENT_COUNT

(* The backlog is complete with visits 1 to 16 in scenario order, the two  *)
(* Emergency scenarios among them, and two live journeys have begun: one   *)
(* is waiting for its specialty, the other has begun its visit.            *)
C30_Witness ==
    /\ simulation.pc = "live"
    /\ simulation.i = TARGET_PATIENT_COUNT
    /\ Len(visits) = TARGET_PATIENT_COUNT + 2
    /\ TotalLoad(doctors) = TARGET_PATIENT_COUNT
    /\ \A v \in 1 .. TARGET_PATIENT_COUNT :
          /\ visits[v].id = FirstVisitId + v - 1
          /\ visits[v].priority = SummaryPriority(patientScenarios[v])
          /\ visits[v].status = "waiting"
    /\ \E j \in LiveJourneys(simulation) : simulation.journeys[j].pc = "routing"
    /\ \E j \in LiveJourneys(simulation) : simulation.journeys[j].pc = "finalizeTriage"

(***************************************************************************)
(* The Batch Rebalancer (POST /rebalance of the README).  A run snapshots  *)
(* the waiting visits that are not Emergency and the active doctors,       *)
(* matches every visit of the batch to an active doctor with at most       *)
(* SlotCapacity visits of the batch per doctor, and applies the            *)
(* differences with the load operations of the ledger.  The solver is      *)
(* taken as any matching within capacity: what is shown for every matching *)
(* holds for the one of least cost.                                        *)
(***************************************************************************)
SlotCapacity == 1

(* The visits of the batch, as positions in vs.                            *)
Batch(vs) ==
    {v \in DOMAIN vs : vs[v].status = "waiting" /\ vs[v].priority # "Emergency"}

(* The matchings of the batch to the active doctors, within capacity.      *)
Matchings(ds, vs) ==
    {m \in [Batch(vs) -> ActiveSet(ds)] :
        \A d \in ActiveSet(ds) :
            Cardinality({v \in Batch(vs) : m[v] = d}) <= SlotCapacity}

(* No matching can be constructed.                                         *)
InfeasibleBatch(ds, vs) == ActiveSet(ds) = {} \/ Matchings(ds, vs) = {}

(* The doctor of the roster a visit points to, 0 when it has none.         *)
OldDoctor(ds, visit) ==
    IF visit.assigned_doctor_id = NoDoctor THEN 0
    ELSE FindDoctor(ds, visit.assigned_doctor_id)

(* A reassignment that increments the new doctor's load and leaves the old *)
(* doctor's load alone.                                                    *)
MoveLoadIncrementOnly(ds, old, new) ==
    IF old = new THEN ds ELSE IncrementLoad(ds, new)

(* The loads after one visit moves from old to new: decrement old,         *)
(* increment new; nothing when the doctor is unchanged.                    *)
MoveLoad(ds, old, new) ==
    IF old = new THEN ds
    ELSE IncrementLoad(IF old # 0 THEN DecrementLoad(ds, old) ELSE ds, new)

RECURSIVE LoadsAfterDiffs(_, _, _, _)
(* The roster after the differences of matching m are applied to the       *)
(* visits at positions v..Len(vs), in the order of vs.                     *)
LoadsAfterDiffs(ds, vs, m, v) ==
    IF v > Len(vs) THEN ds
    ELSE IF v \in DOMAIN m
    THEN LoadsAfterDiffs(MoveLoad(ds, OldDoctor(ds, vs[v]), m[v]), vs, m, v + 1)
    ELSE LoadsAfterDiffs(ds, vs, m, v + 1)

(* The visits after the run: a visit of the batch points to its doctor of  *)
(* the matching.                                                           *)
VisitsAfterDiffs(ds, vs, m) ==
    [v \in DOMAIN vs |->
        IF v \in DOMAIN m /\ OldDoctor(ds, vs[v]) # m[v]
        THEN [vs[v] EXCEPT !.assigned_doctor_id = ds[m[v]].id]
        ELSE vs[v]]

(* A run whose solver returned matching m.                                 *)
rebalance(m) ==
    /\ UNCHANGED <<patients, nextPatientId, nextVisitId, inflight>>
    /\ UNCHANGED <<dashboard, simulation>>
    /\ visits' = VisitsAfterDiffs(doctors, visits, m)
    /\ doctors' = LoadsAfterDiffs(doctors, visits, m, 1)
    /\ m \in Matchings(doctors, visits)
    /\ ~InfeasibleBatch(doctors, visits)

(* A failed run that gives up the assignments of its batch.                *)
VisitsUnassigned(vs) ==
    [v \in DOMAIN vs |->
        IF v \in Batch(vs) THEN [vs[v] EXCEPT !.assigned_doctor_id = NoDoctor]
        ELSE vs[v]]

(* The visits after a run that yields InfeasibleBatch: prior assignments   *)
(* are left intact.                                                        *)
VisitsAfterInfeasible(vs) == vs

(* A run that yields InfeasibleBatch.                                      *)
rebalanceInfeasible ==
    /\ UNCHANGED <<doctors, patients, nextPatientId, nextVisitId, inflight>>
    /\ UNCHANGED <<dashboard, simulation>>
    /\ visits' = VisitsAfterInfeasible(visits)
    /\ InfeasibleBatch(doctors, visits)

RebalanceTargets == {"Neurology"}

RebalanceStatuses == {"active", "offline"}

(* The store after one createPatient call.                                 *)
InitRebalance ==
    /\ doctors = InitialDoctors
    /\ patients = << FirstPatientId >>
    /\ visits = << >>
    /\ nextPatientId = FirstPatientId + 1
    /\ nextVisitId = FirstVisitId
    /\ inflight = EmptyBag
    /\ currentUser = NoDoctor
    /\ allMyVisits = << >>
    /\ selectedSession = NoSession
    /\ isSaving = FALSE
    /\ calls = << >>
    /\ simulation = NotStarted

NextRebalance ==
    \/ \E patientId \in KnownPatientIds :
          /\ Len(visits) < MaxRosterVisits
          /\ beginVisit(patientId)
    \/ \E visitId \in KnownVisitIds, priority \in TriagePriorities,
          pre \in RebalanceTargets :
          finalizeTriage(visitId, priority, pre)
    \/ \E doctorId \in DoctorIdInputs, status \in RebalanceStatuses :
          updateDoctorStatus(doctorId, status)
    \/ \E visitId \in KnownVisitIds : submitDiagnosis(visitId)
    \/ \E visitId \in KnownVisitIds : updateVisitStatus(visitId, "waiting")
    \/ \E m \in Matchings(doctors, visits) : rebalance(m)
    \/ rebalanceInfeasible

SpecRebalance == InitRebalance /\ [][NextRebalance]_vars

(* The visits of the batch that matching m takes away from doctor i, and   *)
(* those it gives to doctor i.                                             *)
MovedOut(i, m) ==
    Cardinality({v \in Batch(visits) : OldDoctor(doctors, visits[v]) = i /\ m[v] # i})

MovedIn(i, m) ==
    Cardinality({v \in Batch(visits) : m[v] = i /\ OldDoctor(doctors, visits[v]) # i})

(* The visits of the batch that have no doctor before the run.             *)
Unassigned(vs) == Cardinality({v \in Batch(vs) : OldDoctor(doctors, vs[v]) = 0})

(* A run touches the visits by differences only: a visit outside the batch *)
(* or whose doctor is unchanged is left as it is, and a visit whose doctor *)
(* changed is repointed and stays waiting.                                 *)
VisitDiffs(m) ==
    \A v \in DOMAIN visits :
        IF v \in Batch(visits) /\ OldDoctor(doctors, visits[v]) # m[v]
        THEN visits'[v] = [visits[v] EXCEPT !.assigned_doctor_id = doctors[m[v]].id]
        ELSE visits'[v] = visits[v]

====
